---- MODULE Spec2Model ----
(***************************************************************************)
(* prom-tools: PrometheusClient.query_multiple, the concurrent dispatcher  *)
(* over heterogeneous query inputs, with the result builder of models.py   *)
(* and the retrying transport of base.py.                                  *)
(*                                                                         *)
(* Python values are modelled as strings and records: None is the string   *)
(* "None"; an absent JSON key is Absent and a JSON null is Null.  asyncio  *)
(* is single-threaded and cooperative: one action is the run of one task   *)
(* from one suspension point to the next.                                  *)
(***************************************************************************)
EXTENDS Integers, Sequences, FiniteSets, TLC

VARIABLES
    queries,          \* argument of query_multiple: the list of inputs
    max_concurrent,   \* argument of query_multiple
    pcMain,           \* "idle" | "gathering" | "returned" | "raised"
    raised,           \* the exception query_multiple raised to its caller
    results,          \* the list query_multiple returned
    query_objects,    \* local of query_multiple: the normalized Query list
    sem_value,        \* asyncio.Semaphore(max_concurrent)._value
    pc,               \* per task: "pending" | "waiting" | "transport" | "backoff" | "done"
    attempt,          \* per task: tenacity attempt number of the running _request
    must_cancel,      \* per task: a cancellation is pending delivery
    outcome,          \* per task: what the awaited _request ended with
    result,           \* per task: what the task's coroutine ended with
    finishOrder,      \* task indices in order of completion
    httpCalls,        \* number of HTTP requests issued by the transport
    cancelRequested,  \* the caller cancelled the query_multiple call
    \* QueryResult.from_response called on its own
    api_response,     \* the decoded JSON body handed to from_response
    built,            \* what from_response ended with
    \* the properties of one Query / QueryResult object
    qobj,             \* the object: name, query text, start, end
    shown,            \* the values its properties were read as
    \* one call of BaseAsyncClient._request
    max_retries,      \* the client's configured max_retries
    tpc,              \* "idle" | "attempting" | "sleeping" | "returned" | "raised"
    tattempt,         \* tenacity's attempt number
    served,           \* the responses the attempts were answered with, in order
    delivered,        \* what the call ended with for its caller
    \* the rate limiter of one client
    rate_limit,       \* the client's rate_limit: requests per second, 0 for None
    now,              \* ticks since the first HTTP attempt
    task_logs,        \* Throttler._task_logs, as the age in ticks of each token
    recent,           \* the ages of the latest HTTP attempts, newest last
    started,          \* number of HTTP attempts started
    \* the auth headers of one client
    credentials,      \* the client's class and credential attributes
    auth_headers,     \* what _prepare_auth_headers returned
    \* one task of query_multiple, from the acquired gate on
    task_query,       \* the normalized Query of the task
    task_query_time,  \* the query_time argument of query_multiple
    task_outcome,     \* what the awaited _request will end with
    sent,             \* the request the task handed to _request
    task_result,      \* what execute_single_query ended with
    \* one call of batch_execute
    awaitables,       \* argument tasks of batch_execute: the kind of each awaitable
    batch_size,       \* argument batch_size
    bpc,              \* "idle" | "gathering" | "sleeping" | "returned" | "raised"
    offset,           \* the loop variable i
    astate,           \* per awaitable: "new" | "running" | "done"
    batch_out,        \* the list results
    sleeps,           \* number of inter-batch sleeps taken
    \* retry_on_failure: one call of a wrapped function
    max_attempts,     \* retry_on_failure(max_attempts=...)
    delay,            \* retry_on_failure(delay=...)
    backoff,          \* retry_on_failure(backoff=...)
    current_delay,    \* the wrapper's current_delay
    last_exception,   \* the wrapper's last_exception
    loop_attempt,     \* the wrapper's loop variable attempt
    rpc,              \* "idle" | "calling" | "sleeping" | "returned" | "raised"
    calls,            \* how each call of the wrapped function ended, in call order
    slept,            \* the durations the wrapper slept, in order
    wrapped,          \* what the wrapper returned or raised
    \* BaseAsyncClient: the sessions of one client
    _session,         \* index in aiohttp_sessions of self._session, 0 for None
    _httpx_session,   \* index in httpx_clients of self._httpx_session, 0 for None
    aiohttp_sessions, \* every ClientSession created: "open" | "closed"
    httpx_clients,    \* every AsyncClient created: "open" | "closed"
    requests,         \* every request issued, in order
    cpc,              \* position of close(): "idle" | "httpx"
    closes            \* number of close() calls begun

dispatchVars == <<queries, max_concurrent, pcMain, raised, results, query_objects,
                  sem_value, pc, attempt, must_cancel, outcome, result, finishOrder,
                  httpCalls, cancelRequested>>
builderVars == <<api_response, built>>
queryVars == <<qobj, shown>>
transportVars == <<max_retries, tpc, tattempt, served, delivered>>
limiterVars == <<rate_limit, now, task_logs, recent, started>>
authVars == <<credentials, auth_headers>>
taskVars == <<task_query, task_query_time, task_outcome, sent, task_result>>
batchVars == <<awaitables, batch_size, bpc, offset, astate, batch_out, sleeps>>
retryVars == <<max_attempts, delay, backoff, current_delay, last_exception, loop_attempt, rpc, calls, slept, wrapped>>
sessionVars == <<_session, _httpx_session, aiohttp_sessions, httpx_clients, requests, cpc, closes>>

\* what the dispatcher leaves alone
others == <<builderVars, queryVars, transportVars, limiterVars, authVars, taskVars, batchVars, retryVars, sessionVars>>

vars == <<dispatchVars, builderVars, queryVars, transportVars, limiterVars, authVars, taskVars, batchVars, retryVars, sessionVars>>

\* ------------------------------------------------------------------ bounds
MaxInputs == 2
MaxConcurrent == 2

\* tenacity: stop_after_attempt(3)
StopAfterAttempt == 3

\* ------------------------------------------------------------ Python values
None == "None"
Absent == "<absent>"
Null == "<null>"
T0 == "2024-01-01T00:00"
T1 == "2024-01-01T01:00"

Truthy(v) == v \notin {None, "", Absent}

\* ------------------------------------------------------------------- Query
Query(name, query, start, end, step) ==
    [name |-> name, query |-> query, start |-> start, end |-> end, step |-> step]

is_range_query_either(q) == q.start # None \/ q.end # None
is_range_query(q) == q.start # None /\ q.end # None
is_instant_query(q) == ~is_range_query(q)

query_type(q) == IF is_range_query(q) THEN "range" ELSE "instant"

\* ------------------------------------------------------------------ inputs
\* An input of query_multiple: kind is the Python type of the list element.
\* For a dict, Absent marks a key the dict does not have.
StrInput(text) ==
    [kind |-> "str", name |-> None, query |-> text, start |-> None, end |-> None, step |-> None]
QueryInput(name, text, start, end, step) ==
    [kind |-> "Query", name |-> name, query |-> text, start |-> start, end |-> end, step |-> step]
DictInput(name, text, start, end, step) ==
    [kind |-> "dict", name |-> name, query |-> text, start |-> start, end |-> end, step |-> step]
OtherInput ==
    [kind |-> "int", name |-> None, query |-> None, start |-> None, end |-> None, step |-> None]

ValidInputs ==
    { StrInput("up"),
      QueryInput("trend", "rate", T0, T1, "1m"),
      DictInput("mem", "mem", T0, Absent, Absent) }

InvalidInputs ==
    { QueryInput(None, "rate", T0, T1, None),
      DictInput(Absent, "disk", T0, T1, Absent),
      DictInput("disk", "disk", T0, T1, ""),
      DictInput(Absent, Absent, Absent, Absent, Absent),
      OtherInput }

QueryInputs == ValidInputs \cup InvalidInputs

SeqsUpTo(S, n) == UNION { [1..k -> S] : k \in 0..n }

\* dict.get(key): None when the key is absent
DictGet(v) == IF v = Absent THEN None ELSE v

Return(v) == [kind |-> "return", value |-> v]
Raise(type, text) == [kind |-> "raise", type |-> type, text |-> text]

\* One pass of the normalization loop body of query_multiple.
NormalizeOne(inp) ==
    IF inp.kind = "str" THEN
        Return(Query(None, inp.query, None, None, None))
    ELSE IF inp.kind = "Query" THEN
        LET query_obj == Query(inp.name, inp.query, inp.start, inp.end, inp.step) IN
        IF is_range_query(query_obj) /\ ~Truthy(query_obj.step)
        THEN Raise("ValueError", query_obj.query)
        ELSE Return(query_obj)
    ELSE IF inp.kind = "dict" THEN
        IF inp.query = Absent THEN Raise("KeyError", "query")
        ELSE
        LET query_obj == Query(DictGet(inp.name), inp.query, DictGet(inp.start),
                               DictGet(inp.end), DictGet(inp.step)) IN
        IF is_range_query(query_obj) /\ ~Truthy(query_obj.step)
        THEN Raise("ValueError", query_obj.query)
        ELSE Return(query_obj)
    ELSE Raise("ValueError", inp.kind)

Min(S) == CHOOSE m \in S : \A k \in S : m <= k

\* The normalization loop of query_multiple: the first input that does not
\* normalize raises; otherwise the list of Query objects, in input order.
normalize_skipping(qs) ==
    LET good == { i \in 1..Len(qs) : NormalizeOne(qs[i]).kind = "return" }
        Pick[k \in 0..Len(qs)] ==
            IF k = 0 THEN <<>>
            ELSE IF k \in good THEN Append(Pick[k - 1], NormalizeOne(qs[k]).value)
                 ELSE Pick[k - 1]
    IN Return(Pick[Len(qs)])

normalize(qs) ==
    LET bad == { i \in 1..Len(qs) : NormalizeOne(qs[i]).kind = "raise" } IN
    IF bad # {} THEN NormalizeOne(qs[Min(bad)])
    ELSE Return([i \in 1..Len(qs) |-> NormalizeOne(qs[i]).value])

\* ------------------------------------------------------- response bodies
\* A decoded JSON body: status and error are strings, Absent or Null; result is
\* the list of series of data.result.  A series: metric is a set of <<key,
\* value>> pairs, value a sample or <<>>, values a list of samples; a sample is
\* <<timestamp, value string>>.
Body(status, error, resultType, res) ==
    [status |-> status, error |-> error, resultType |-> resultType, result |-> res]
Series(metric, value, values) == [metric |-> metric, value |-> value, values |-> values]

VectorBody ==
    Body("success", Absent, "vector",
         << Series({<<"__name__", "up">>, <<"job", "node">>}, <<"10", "1">>, <<>>) >>)
MatrixBody ==
    Body("success", Absent, "matrix",
         << Series({<<"__name__", "rate">>}, <<>>, << <<"10", "1">>, <<"20", "NaN">> >>) >>)
ErrorBody == Body("error", "bad_data", Absent, <<>>)
NullErrorBody == Body("error", Null, Absent, <<>>)
NoStatusBody == Body(Absent, Absent, Absent, <<>>)
BadSampleBody ==
    Body("success", Absent, "vector",
         << Series({<<"__name__", "up">>}, <<"10", "abc">>, <<>>) >>)

Bodies == {VectorBody, MatrixBody, ErrorBody, NullErrorBody, NoStatusBody, BadSampleBody}

\* the bodies the transport of the dispatcher is answered with
TransportBodies == {VectorBody, MatrixBody, NullErrorBody, BadSampleBody}

NoData == [status |-> None]

\* float(str): the strings Python parses, and what they parse to
FloatTable == [s \in {"1", "2", "NaN"} |->
                 IF s = "1" THEN "1.0" ELSE IF s = "2" THEN "2.0" ELSE "nan"]
CanFloat(s) == s \in DOMAIN FloatTable

\* datetime.fromtimestamp(epoch seconds)
FromTimestamp(ts) == IF ts = "10" THEN "1970-01-01T00:00:10"
                     ELSE IF ts = "20" THEN "1970-01-01T00:00:20" ELSE "1970-01-01T00:00:00"

Metric(name, labels, value, timestamp, values) ==
    [name |-> name, labels |-> labels, value |-> value, timestamp |-> timestamp,
     values |-> values]
\* Metric.values: Optional[List]
NoValues == [set |-> FALSE, items |-> <<>>]
Values(items) == [set |-> TRUE, items |-> items]

QueryResult(query_name, query, qtype, success, status, metrics, error, execution_time, data) ==
    [query_name |-> query_name, query |-> query, query_type |-> qtype,
     success |-> success, status |-> status, metrics |-> metrics, error |-> error,
     execution_time |-> execution_time, data |-> data]

MetricName(item) ==
    IF \E p \in item.metric : p[1] = "__name__"
    THEN (CHOOSE p \in item.metric : p[1] = "__name__")[2]
    ELSE "unknown"
labels_with_name(item) == item.metric
Labels(item) == { p \in item.metric : p[1] # "__name__" }

pairs_newest_first(item) ==
    LET Keep[k \in 0..Len(item.values)] ==
            IF k = 0 THEN <<>>
            ELSE IF Len(item.values[k]) >= 2 THEN <<item.values[k]>> \o Keep[k - 1]
                 ELSE Keep[k - 1]
    IN Keep[Len(item.values)]

\* the (timestamp, value) pairs of a matrix series that have both members
Pairs(item) ==
    LET Keep[k \in 0..Len(item.values)] ==
            IF k = 0 THEN <<>>
            ELSE IF Len(item.values[k]) >= 2 THEN Append(Keep[k - 1], item.values[k])
                 ELSE Keep[k - 1]
    IN Keep[Len(item.values)]

\* the samples from_response passes to float()
Parsed(body) ==
    IF body.resultType = "vector"
    THEN { body.result[k].value[2] : k \in { j \in 1..Len(body.result) : Len(body.result[j].value) >= 2 } }
    ELSE IF body.resultType = "matrix"
    THEN UNION { { Pairs(body.result[k])[j][2] : j \in 1..Len(Pairs(body.result[k])) } :
                 k \in 1..Len(body.result) }
    ELSE {}

body_status_assumed(body) == IF body.status = Absent THEN "success" ELSE body.status
BodyStatus(body) == IF body.status = Absent THEN "unknown" ELSE body.status

\* from_response raises ValueError when float() rejects a sample
from_response_raises(body) ==
    BodyStatus(body) = "success" /\ \E s \in Parsed(body) : ~CanFloat(s)

MetricsOf(body) ==
    LET Build[k \in 0..Len(body.result)] ==
            IF k = 0 THEN <<>>
            ELSE LET item == body.result[k] IN
                 IF body.resultType = "vector" THEN
                     IF Len(item.value) >= 2
                     THEN Append(Build[k - 1],
                                 Metric(MetricName(item), Labels(item),
                                        FloatTable[item.value[2]],
                                        FromTimestamp(item.value[1]), NoValues))
                     ELSE Build[k - 1]
                 ELSE IF body.resultType = "matrix" THEN
                     Append(Build[k - 1],
                            Metric(MetricName(item), Labels(item), None, None,
                                   Values([j \in 1..Len(Pairs(item)) |->
                                       [timestamp |-> FromTimestamp(Pairs(item)[j][1]),
                                        value |-> FloatTable[Pairs(item)[j][2]]]])))
                 ELSE Build[k - 1]
    IN Build[Len(body.result)]

from_response(query_name, query, response, execution_time, qtype) ==
    IF BodyStatus(response) # "success" THEN
        QueryResult(query_name, query, qtype, FALSE, BodyStatus(response), <<>>,
                    IF response.error = Absent THEN "Unknown error"
                    ELSE IF response.error = Null THEN None ELSE response.error,
                    execution_time, response)
    ELSE
        QueryResult(query_name, query, qtype, TRUE, BodyStatus(response),
                    MetricsOf(response), None, execution_time, response)

\* str(exception)
StrOf(e) == IF e = "CancelledError" THEN ""
            ELSE IF e = "RetryError" THEN "RetryError[<Future raised>]"
            ELSE IF e = "ValueError" THEN "could not convert string to float"
            ELSE e

from_error(query_name, query, error, execution_time, qtype) ==
    QueryResult(query_name, query, qtype, FALSE, "error", <<>>, StrOf(error),
                execution_time, NoData)

\* ------------------------------------------------------------ exceptions
\* What one HTTP attempt of _request can raise: the errors of _handle_response
\* (429, 401, other >= 400) and a network failure of the session.
TransportErrors == {"RateLimitError", "APIError", "ClientError"}

\* the classes below Exception; asyncio.CancelledError derives from
\* BaseException (Python 3.8 and later)
IsException(e) == e \in TransportErrors \cup {"RetryError", "ValueError"}

\* what awaiting _request ended with
Ok(body) == [kind |-> "ok", body |-> body, exc |-> None]
Exc(e) == [kind |-> "exc", body |-> NoData, exc |-> e]
NoOutcome == [kind |-> "none", body |-> NoData, exc |-> None]
NoResult == [kind |-> "none"]

\* @retry(stop=stop_after_attempt(3), ...): the default retry predicate,
\* retry_if_exception_type(Exception)
tenacity_retries_all(e) == TRUE
tenacity_retries(e) == IsException(e)

\* datetime.timestamp()
Timestamp(t) == <<"epoch", t>>

\* the request PrometheusClient.query hands to _request (the optional timeout
\* parameter is left out)
query_request(text, at) ==
    [endpoint |-> "api/v1/query",
     params |-> {<<"query", text>>} \cup
                (IF Truthy(at) THEN {<<"time", Timestamp(at)>>} ELSE {})]

\* the request PrometheusClient.query_range hands to _request
query_range_request(text, start, end, step) ==
    [endpoint |-> "api/v1/query_range",
     params |-> {<<"query", text>>, <<"start", Timestamp(start)>>,
                 <<"end", Timestamp(end)>>, <<"step", step>>}]

request_of_timed(query_obj, at) ==
    IF is_range_query(query_obj)
    THEN [query_range_request(query_obj.query, query_obj.start, query_obj.end, query_obj.step)
            EXCEPT !.params = @ \cup {<<"time", Timestamp(at)>>}]
    ELSE query_request(query_obj.query, at)
\* execute_single_query: the call it makes for a Query
request_of(query_obj, at) ==
    IF is_range_query(query_obj)
    THEN query_range_request(query_obj.query, query_obj.start, query_obj.end, query_obj.step)
    ELSE query_request(query_obj.query, at)

\* PrometheusClient.query: try/except around _request and from_response
query(text, r) ==
    IF r.kind = "ok" /\ ~from_response_raises(r.body)
    THEN Return(from_response(None, text, r.body, None, "instant"))
    ELSE LET e == IF r.kind = "ok" THEN "ValueError" ELSE r.exc IN
         IF e = "CancelledError" \/ IsException(e)
         THEN Return(from_error(None, text, e, None, "instant"))
         ELSE Raise(e, StrOf(e))

\* PrometheusClient.query_range: only `except Exception`
query_range(text, r) ==
    IF r.kind = "ok" /\ ~from_response_raises(r.body)
    THEN Return(from_response(None, text, r.body, None, "range"))
    ELSE LET e == IF r.kind = "ok" THEN "ValueError" ELSE r.exc IN
         IF IsException(e)
         THEN Return(from_error(None, text, e, None, "range"))
         ELSE Raise(e, StrOf(e))

\* execute_single_query with its handler re-raising what the transport raised
execute_single_query_unguarded(query_obj, r) ==
    IF r.kind = "exc" THEN Raise(r.exc, StrOf(r.exc))
    ELSE LET inner == IF is_range_query(query_obj) THEN query_range(query_obj.query, r)
                      ELSE query(query_obj.query, r) IN
         Return([inner.value EXCEPT !.execution_time = "elapsed",
                    !.query_name = IF Truthy(query_obj.name) THEN query_obj.name ELSE @])

\* execute_single_query rebuilding the Result it returns from the inner one's
\* scalar fields only
execute_single_query_rebuilt(query_obj, r) ==
    LET inner == IF is_range_query(query_obj) THEN query_range(query_obj.query, r)
                 ELSE query(query_obj.query, r) IN
    IF inner.kind = "return" THEN
        Return([inner.value EXCEPT !.execution_time = "elapsed", !.metrics = <<>>,
                   !.query_name = IF Truthy(query_obj.name) THEN query_obj.name ELSE @])
    ELSE IF IsException(inner.type) THEN
        Return(from_error(query_obj.name, query_obj.query, inner.type, "elapsed",
                          query_type(query_obj)))
    ELSE Raise(inner.type, inner.text)

\* execute_single_query leaving the Result's query_name as query() set it
execute_single_query_unnamed(query_obj, r) ==
    LET inner == IF is_range_query(query_obj) THEN query_range(query_obj.query, r)
                 ELSE query(query_obj.query, r) IN
    IF inner.kind = "return" THEN
        Return([inner.value EXCEPT !.execution_time = "elapsed"])
    ELSE IF IsException(inner.type) THEN
        Return(from_error(None, query_obj.query, inner.type, "elapsed",
                          query_type(query_obj)))
    ELSE Raise(inner.type, inner.text)

\* execute_single_query, from the acquired gate to the end of the coroutine:
\* what the task ends with when its transport call ended with r
execute_single_query(query_obj, r) ==
    LET inner == IF is_range_query(query_obj) THEN query_range(query_obj.query, r)
                 ELSE query(query_obj.query, r) IN
    IF inner.kind = "return" THEN
        Return([inner.value EXCEPT !.execution_time = "elapsed",
                   !.query_name = IF Truthy(query_obj.name) THEN query_obj.name ELSE @])
    ELSE IF IsException(inner.type) THEN
        Return(from_error(query_obj.name, query_obj.query, inner.type, "elapsed",
                          query_type(query_obj)))
    ELSE Raise(inner.type, inner.text)

\* asyncio.Semaphore.locked()
locked_never == FALSE
locked == sem_value <= 0

\* asyncio.gather(*tasks): the children's results by position
gather_by_completion == [k \in 1..Len(finishOrder) |-> result[finishOrder[k]].value]
gather == [i \in 1..Len(query_objects) |-> result[i].value]

\* ------------------------------------------------------------------ state
Tasks == 1..Len(query_objects)
Finished(i) == pc[i] = "done"
TaskReturned(i) == pc[i] = "done" /\ result[i].kind = "return"
TaskRaised(i) == pc[i] = "done" /\ result[i].kind = "raise"
Holders == { i \in Tasks : pc[i] \in {"transport", "backoff"} }

\* `start_time = time.time()`, the first statement under `async with
\* semaphore`, has run in task i
start_time_recorded(i) ==
    \/ pc[i] \in {"transport", "backoff"}
    \/ pc[i] = "done" /\ outcome[i].kind # "none"

\* the parts of the state that belong to no call in progress
DispatchIdle ==
    /\ queries = <<>> /\ max_concurrent = 1 /\ pcMain = "idle"
    /\ raised = NoResult /\ results = <<>> /\ query_objects = <<>>
    /\ sem_value = 0 /\ pc = <<>> /\ attempt = <<>> /\ must_cancel = <<>>
    /\ outcome = <<>> /\ result = <<>> /\ finishOrder = <<>>
    /\ httpCalls = 0 /\ cancelRequested = FALSE
BuilderIdle == api_response = NoData /\ built = NoResult
QueryIdle == qobj = NoResult /\ shown = NoResult
TransportIdle ==
    /\ max_retries = 0 /\ tpc = "idle" /\ tattempt = 0
    /\ served = <<>> /\ delivered = NoResult
LimiterIdle ==
    /\ rate_limit = 0 /\ now = 0 /\ task_logs = <<>> /\ recent = <<>>
    /\ started = 0
AuthIdle ==
    /\ credentials = NoResult /\ auth_headers = NoResult
TaskIdle ==
    /\ task_query = NoResult /\ task_query_time = None /\ task_outcome = NoOutcome
    /\ sent = NoResult /\ task_result = NoResult
BatchIdle ==
    /\ awaitables = <<>> /\ batch_size = 1 /\ bpc = "idle" /\ offset = 0
    /\ astate = <<>> /\ batch_out = <<>> /\ sleeps = 0
RetryIdle ==
    /\ max_attempts = 0 /\ delay = 0 /\ backoff = 0 /\ current_delay = 0
    /\ last_exception = NoResult /\ loop_attempt = 0 /\ rpc = "idle"
    /\ calls = <<>> /\ slept = <<>> /\ wrapped = NoResult
SessionIdle ==
    /\ _session = 0 /\ _httpx_session = 0
    /\ aiohttp_sessions = <<>> /\ httpx_clients = <<>>
    /\ requests = <<>> /\ cpc = "idle" /\ closes = 0

Init ==
    /\ BuilderIdle /\ QueryIdle /\ TransportIdle /\ LimiterIdle /\ AuthIdle /\ TaskIdle /\ BatchIdle /\ RetryIdle /\ SessionIdle
    /\ queries \in SeqsUpTo(QueryInputs, MaxInputs)
    /\ max_concurrent \in 1..MaxConcurrent
    /\ pcMain = "idle"
    /\ raised = NoResult
    /\ results = <<>>
    /\ query_objects = <<>>
    /\ sem_value = 0
    /\ pc = <<>>
    /\ attempt = <<>>
    /\ must_cancel = <<>>
    /\ outcome = <<>>
    /\ result = <<>>
    /\ finishOrder = <<>>
    /\ httpCalls = 0
    /\ cancelRequested = FALSE

\* query_multiple up to its `await asyncio.gather`: normalization, the
\* semaphore, one coroutine per Query.  No suspension point in between.
Call ==
    /\ pcMain = "idle"
    /\ LET n == normalize(queries) IN
       IF n.kind = "raise" THEN
           /\ pcMain' = "raised"
           /\ raised' = n
           /\ UNCHANGED <<query_objects, sem_value, pc, attempt, must_cancel, outcome, result>>
       ELSE
           /\ pcMain' = "gathering"
           /\ query_objects' = n.value
           /\ sem_value' = max_concurrent
           /\ pc' = [i \in 1..Len(n.value) |-> "pending"]
           /\ attempt' = [i \in 1..Len(n.value) |-> 0]
           /\ must_cancel' = [i \in 1..Len(n.value) |-> FALSE]
           /\ outcome' = [i \in 1..Len(n.value) |-> NoOutcome]
           /\ result' = [i \in 1..Len(n.value) |-> NoResult]
           /\ UNCHANGED raised
    /\ UNCHANGED <<others, queries, max_concurrent, results, finishOrder, httpCalls, cancelRequested>>

\* The task passes the gate and runs to its first HTTP request: start_time,
\* query / query_range, _request, tenacity's first attempt.
EnterTransport(i) ==
    /\ sem_value' = sem_value - 1
    /\ pc' = [pc EXCEPT ![i] = "transport"]
    /\ attempt' = [attempt EXCEPT ![i] = 1]
    /\ httpCalls' = httpCalls + 1

\* first step of a task: `async with semaphore`
TaskStart(i) ==
    /\ pc[i] = "pending" /\ ~must_cancel[i]
    /\ IF locked
       THEN /\ pc' = [pc EXCEPT ![i] = "waiting"]
            /\ UNCHANGED <<sem_value, attempt, httpCalls>>
       ELSE EnterTransport(i)
    /\ UNCHANGED <<others, queries, max_concurrent, pcMain, raised, results, query_objects,
                   must_cancel, outcome, result, finishOrder, cancelRequested>>

Acquire_lost_wakeup(i) ==
    /\ pc[i] = "waiting" /\ ~must_cancel[i]
    /\ FALSE
    /\ UNCHANGED vars

\* a waiter of the semaphore is woken after a release
Acquire(i) ==
    /\ pc[i] = "waiting" /\ ~must_cancel[i]
    /\ ~locked
    /\ EnterTransport(i)
    /\ UNCHANGED <<others, queries, max_concurrent, pcMain, raised, results, query_objects,
                   must_cancel, outcome, result, finishOrder, cancelRequested>>

Finish_keeping_slot(i, r) ==
    /\ outcome' = [outcome EXCEPT ![i] = r]
    /\ result' = [result EXCEPT ![i] = execute_single_query(query_objects[i], r)]
    /\ pc' = [pc EXCEPT ![i] = "done"]
    /\ attempt' = [attempt EXCEPT ![i] = 0]
    /\ sem_value' = sem_value
    /\ finishOrder' = Append(finishOrder, i)

\* The awaited _request ended with r: the rest of execute_single_query runs
\* without suspension and `async with` releases the semaphore.
Finish(i, r) ==
    /\ outcome' = [outcome EXCEPT ![i] = r]
    /\ result' = [result EXCEPT ![i] = execute_single_query(query_objects[i], r)]
    /\ pc' = [pc EXCEPT ![i] = "done"]
    /\ attempt' = [attempt EXCEPT ![i] = 0]
    /\ sem_value' = sem_value + 1
    /\ finishOrder' = Append(finishOrder, i)

\* an attempt is answered with a status below 400 and a JSON body
AttemptOk(i) ==
    /\ pc[i] = "transport" /\ ~must_cancel[i]
    /\ \E b \in TransportBodies : Finish(i, Ok(b))
    /\ UNCHANGED <<others, queries, max_concurrent, pcMain, raised, results, query_objects,
                   must_cancel, httpCalls, cancelRequested>>

\* An exception e leaves the attempt: tenacity re-raises what its predicate
\* rejects, raises RetryError after the last attempt, sleeps otherwise.
AfterException(i, e) ==
    IF ~tenacity_retries(e) THEN Finish(i, Exc(e))
    ELSE IF attempt[i] >= StopAfterAttempt THEN Finish(i, Exc("RetryError"))
    ELSE /\ pc' = [pc EXCEPT ![i] = "backoff"]
         /\ UNCHANGED <<outcome, result, attempt, sem_value, finishOrder>>

\* an attempt fails: a status >= 400 or a network failure
AttemptFail(i) ==
    /\ pc[i] = "transport" /\ ~must_cancel[i]
    /\ \E e \in TransportErrors : AfterException(i, e)
    /\ UNCHANGED <<others, queries, max_concurrent, pcMain, raised, results, query_objects,
                   must_cancel, httpCalls, cancelRequested>>

\* tenacity's sleep is over: the next attempt issues its HTTP request
Retry(i) ==
    /\ pc[i] = "backoff" /\ ~must_cancel[i]
    /\ pc' = [pc EXCEPT ![i] = "transport"]
    /\ attempt' = [attempt EXCEPT ![i] = attempt[i] + 1]
    /\ httpCalls' = httpCalls + 1
    /\ UNCHANGED <<others, queries, max_concurrent, pcMain, raised, results, query_objects,
                   sem_value, must_cancel, outcome, result, finishOrder, cancelRequested>>

\* The caller cancels its await of query_multiple: gather's future cancels
\* every child that is not done.
Cancel ==
    /\ pcMain = "gathering" /\ ~cancelRequested
    /\ \E i \in Tasks : ~Finished(i)
    /\ cancelRequested' = TRUE
    /\ must_cancel' = [i \in Tasks |-> ~Finished(i)]
    /\ UNCHANGED <<others, queries, max_concurrent, pcMain, raised, results, query_objects,
                   sem_value, pc, attempt, outcome, result, finishOrder, httpCalls>>

\* The task's next step throws CancelledError into its coroutine, at the
\* suspension point it is waiting in.
DeliverCancel(i) ==
    /\ must_cancel[i] /\ ~Finished(i)
    /\ must_cancel' = [must_cancel EXCEPT ![i] = FALSE]
    /\ IF pc[i] \in {"pending", "waiting"} THEN
           \* outside the try block and without a slot
           /\ pc' = [pc EXCEPT ![i] = "done"]
           /\ result' = [result EXCEPT ![i] = Raise("CancelledError", "")]
           /\ finishOrder' = Append(finishOrder, i)
           /\ UNCHANGED <<outcome, attempt, sem_value>>
       ELSE IF pc[i] = "transport" THEN AfterException(i, "CancelledError")
       ELSE Finish(i, Exc("CancelledError"))
    /\ UNCHANGED <<others, queries, max_concurrent, pcMain, raised, results, query_objects,
                   httpCalls, cancelRequested>>

\* every child is done and none raised: gather's result is returned
GatherReturn ==
    /\ pcMain = "gathering" /\ ~cancelRequested
    /\ \A i \in Tasks : TaskReturned(i)
    /\ results' = gather
    /\ pcMain' = "returned"
    /\ UNCHANGED <<others, queries, max_concurrent, raised, query_objects, sem_value, pc, attempt,
                   must_cancel, outcome, result, finishOrder, httpCalls, cancelRequested>>

\* gather (return_exceptions=False) passes the first exception of a child to
\* the caller; a cancelled gather raises CancelledError once its children are done
GatherRaise ==
    /\ pcMain = "gathering"
    /\ \/ \E i \in Tasks : TaskRaised(i) /\ raised' = result[i]
       \/ /\ cancelRequested /\ \A i \in Tasks : TaskReturned(i)
          /\ raised' = Raise("CancelledError", "")
    /\ pcMain' = "raised"
    /\ UNCHANGED <<others, queries, max_concurrent, results, query_objects, sem_value, pc, attempt,
                   must_cancel, outcome, result, finishOrder, httpCalls, cancelRequested>>

Next ==
    \/ Call
    \/ \E i \in Tasks : TaskStart(i)
    \/ \E i \in Tasks : Acquire(i)
    \/ \E i \in Tasks : AttemptOk(i)
    \/ \E i \in Tasks : AttemptFail(i)
    \/ \E i \in Tasks : Retry(i)
    \/ Cancel
    \/ \E i \in Tasks : DeliverCancel(i)
    \/ GatherReturn
    \/ GatherRaise

Spec == Init /\ [][Next]_vars

\* ============================================================ properties
AllFinished == \A i \in Tasks : Finished(i)

\* an input the normalizer must reject: no string, Query or mapping; a mapping
\* without a query; start and end set with an empty or missing step
RangeWithoutStep(inp) ==
    /\ inp.kind \in {"Query", "dict"}
    /\ inp.query # Absent
    /\ inp.start \notin {None, Absent} /\ inp.end \notin {None, Absent}
    /\ inp.step \in {None, Absent, ""}
Unsupported(inp) == inp.kind \notin {"str", "Query", "dict"}
Malformed(inp) ==
    \/ Unsupported(inp)
    \/ inp.kind = "dict" /\ inp.query = Absent
    \/ RangeWithoutStep(inp)
MalformedAt == { i \in 1..Len(queries) : Malformed(queries[i]) }

\* C1: when query_multiple returns, the list has one Result per input and the
\* i-th Result carries the query text of the i-th input, whatever the order in
\* which the tasks completed; an empty input list gives an empty list.
C1_OrderPreserved ==
    pcMain = "returned" =>
        /\ Len(results) = Len(queries)
        /\ \A i \in 1..Len(queries) : results[i].query = queries[i].query

\* C1 witness: a returned batch of different queries whose first input did not
\* complete first.
C1_Witness ==
    /\ pcMain = "returned"
    /\ Len(results) >= 2
    /\ finishOrder[1] # 1
    /\ queries[1].query # queries[2].query
    /\ queries[1].kind # queries[2].kind

TransportFailed(i) == outcome[i].kind = "exc"
\* a body from_response turns into a successful Result
SuccessBody(b) == b.status = "success" /\ \A s \in Parsed(b) : CanFloat(s)
\* the Metrics the two well-formed success bodies stand for
ExpectedMetrics(b) ==
    IF b = VectorBody THEN
        << Metric("up", {<<"job", "node">>}, "1.0", "1970-01-01T00:00:10", NoValues) >>
    ELSE IF b = MatrixBody THEN
        << Metric("rate", {}, None, None,
                  Values(<< [timestamp |-> "1970-01-01T00:00:10", value |-> "1.0"],
                            [timestamp |-> "1970-01-01T00:00:20", value |-> "nan"] >>)) >>
    ELSE <<>>

\* C2 (as claimed): in a returned batch exactly the positions whose transport
\* call failed have success=false; every other Result has success=true with
\* the metrics of its own response.
C2_ExactlyFailedTransport ==
    pcMain = "returned" =>
        /\ Len(results) = Len(queries)
        /\ \A i \in 1..Len(results) :
              /\ results[i].success = ~TransportFailed(i)
              /\ results[i].success => results[i].metrics = ExpectedMetrics(outcome[i].body)

\* C2 (amended): in a returned batch every input has its Result and its own
\* transport outcome; the positions with success=false are exactly those whose
\* transport call failed or whose response body is not a parseable
\* status="success" body; every other Result has success=true with the metrics
\* of its own response.
C2_FailureIsolation ==
    pcMain = "returned" =>
        /\ Len(results) = Len(queries)
        /\ \A i \in 1..Len(results) :
              /\ outcome[i].kind # "none"
              /\ results[i].success = (~TransportFailed(i) /\ SuccessBody(outcome[i].body))
              /\ results[i].success => results[i].metrics = ExpectedMetrics(outcome[i].body)
              /\ ~results[i].success => results[i].metrics = <<>>

\* C2 witness: a returned batch in which one transport call failed and a
\* sibling succeeded with metrics.
C2_Witness ==
    /\ pcMain = "returned"
    /\ \E i, j \in 1..Len(results) :
          /\ TransportFailed(i) /\ ~results[i].success
          /\ ~TransportFailed(j) /\ results[j].success /\ results[j].metrics # <<>>

\* C3: the tasks that hold a gate slot (in their transport call, its retries
\* included) never outnumber max_concurrent.
C3_GateBound == Cardinality(Holders) <= max_concurrent

\* C3 witness: every slot is held while another task waits on the gate.
C3_Witness ==
    /\ Cardinality(Holders) = max_concurrent
    /\ \E i \in Tasks : pc[i] = "waiting"

\* C4: once query_multiple has run on a batch with a malformed input, it has
\* raised, no HTTP request was issued, no task exists and nothing is returned,
\* wherever the malformed input sits.
C4_FailFast ==
    (pcMain # "idle" /\ MalformedAt # {}) =>
        /\ pcMain = "raised"
        /\ httpCalls = 0
        /\ Tasks = {}
        /\ results = <<>>

\* C4 witness: the call raised on a batch whose malformed input is the last
\* one, after a valid first input.
C4_Witness ==
    /\ pcMain = "raised"
    /\ Len(queries) >= 2
    /\ MalformedAt = {Len(queries)}

\* C5: without cancellation query_multiple raises only if an input is
\* malformed; a task whose transport call ended with an error (exhausted
\* retries, a body that cannot be parsed) ends with a failed Result and never
\* with an exception.
C5_OnlyNormalizationRaises ==
    /\ (pcMain = "raised" /\ raised.type # "CancelledError") =>
           (MalformedAt # {} /\ Tasks = {})
    /\ \A i \in Tasks :
          /\ TaskRaised(i) => result[i].type = "CancelledError"
          /\ (Finished(i) /\ outcome[i].kind # "none" /\ outcome[i].exc # "CancelledError"
                /\ (TransportFailed(i) \/ ~SuccessBody(outcome[i].body)))
             => (TaskReturned(i) /\ ~result[i].value.success)

\* C5 witness: a batch returned although one query exhausted its retries and
\* another received a body whose sample does not parse.
C5_Witness ==
    /\ pcMain = "returned"
    /\ \E i, j \in Tasks :
          /\ outcome[i].exc = "RetryError" /\ ~results[i].success
          /\ outcome[j].body = BadSampleBody /\ ~results[j].success

\* C6: a task that is cancelled while it waits on the gate or is inside its
\* transport call ends with a failed Result, not with an exception.
C6_CancelBecomesResult ==
    [][\A i \in Tasks :
          (must_cancel[i] /\ pc[i] \in {"waiting", "transport", "backoff"} /\ pc'[i] = "done")
          => (result'[i].kind = "return" /\ ~result'[i].value.success)]_vars

\* C7: once the call is cancelled no further HTTP request is issued, every
\* step of an outstanding task ends that task, and when all tasks have ended
\* every gate slot is free.
C7_CancelStops ==
    /\ [][cancelRequested =>
             /\ httpCalls' = httpCalls
             /\ \A i \in Tasks : pc'[i] # pc[i] => pc'[i] = "done"]_vars
    /\ []((cancelRequested /\ AllFinished) => sem_value = max_concurrent)

\* C7 witness: a cancelled batch has ended; one task was cancelled inside the
\* transport call of an instant query, one inside that of a range query.
C7_Witness ==
    /\ cancelRequested /\ AllFinished
    /\ \E i, j \in Tasks :
          /\ outcome[i].exc = "CancelledError" /\ TaskReturned(i)
          /\ outcome[j].exc = "CancelledError" /\ TaskRaised(j)

\* C8: a batch whose first malformed input has start and end but no step
\* fails with a ValidationError that names the input's query text.
C8_ValidationError ==
    (pcMain # "idle" /\ MalformedAt # {} /\ RangeWithoutStep(queries[Min(MalformedAt)])) =>
        /\ pcMain = "raised"
        /\ raised.type = "ValidationError"
        /\ raised.text = queries[Min(MalformedAt)].query

\* C9: a batch whose first malformed input is no string, Query or mapping
\* fails with an UnsupportedInputError.
C9_UnsupportedInputError ==
    (pcMain # "idle" /\ MalformedAt # {} /\ Unsupported(queries[Min(MalformedAt)])) =>
        /\ pcMain = "raised"
        /\ raised.type = "UnsupportedInputError"

\* C10: every Result a task produced satisfies: success=false implies no
\* metrics and an error that is set; success=true implies status "success".
C10_ResultInvariant ==
    \A i \in Tasks :
        TaskReturned(i) =>
            LET r == result[i].value IN
            /\ ~r.success => (r.metrics = <<>> /\ r.error # None)
            /\ r.success => r.status = "success"

\* ------------------------------------------- QueryResult.from_response
\* The result builder on its own: from_response is applied to one decoded
\* body drawn from the shapes below.
MaxSeries == 2

SeriesShapes ==
    { Series({<<"__name__", "up">>, <<"job", "node">>}, <<"10", "1">>, <<>>),
      Series({<<"job", "node">>}, <<"20", "2">>, <<>>),
      \* a series without a "value" member (a native histogram sample)
      Series({<<"__name__", "hist">>}, <<>>, <<>>),
      Series({<<"__name__", "up">>}, <<"10", "abc">>, <<>>),
      Series({<<"__name__", "rate">>}, <<>>, << <<"10", "1">>, <<"20", "NaN">> >>),
      Series({}, <<>>, <<>>),
      Series({<<"__name__", "rate">>}, <<>>, << <<"10", "abc">> >>),
      \* an entry of "values" that has a timestamp only
      Series({<<"__name__", "rate">>, <<"job", "node">>}, <<>>,
             << <<"10">>, <<"20", "2">> >>) }

BuilderBodies ==
    { Body(st, er, rt, res) :
        st \in {"success", "error", Absent},
        er \in {Absent, Null, "bad_data"},
        rt \in {"vector", "matrix", "string"},
        res \in SeqsUpTo(SeriesShapes, MaxSeries) }

InitBuilder ==
    /\ DispatchIdle /\ QueryIdle /\ TransportIdle /\ LimiterIdle /\ AuthIdle /\ TaskIdle /\ BatchIdle /\ RetryIdle /\ SessionIdle
    /\ api_response \in BuilderBodies
    /\ built = NoResult

\* cls.from_response(None, "up", response): returns the Result or lets the
\* ValueError of float() through
Build ==
    /\ built = NoResult
    /\ built' = IF from_response_raises(api_response)
                THEN Raise("ValueError", StrOf("ValueError"))
                ELSE Return(from_response(None, "up", api_response, None, "instant"))
    /\ UNCHANGED <<dispatchVars, sessionVars, retryVars, batchVars, taskVars, authVars, limiterVars, queryVars, transportVars, api_response>>

NextBuilder == Build

SpecBuilder == InitBuilder /\ [][NextBuilder]_vars

\* the body is a status="success" body of the given result type
SuccessOf(rt) == api_response.status = "success" /\ api_response.resultType = rt
HasSample(series) == Len(series.value) >= 2
IsPair(entry) == Len(entry) >= 2
NamelessLabels(series) == { p \in series.metric : p[1] # "__name__" }

\* C11 as stated: a status="success" vector body with k series gives exactly
\* k Metrics, the j-th built from the j-th series, with value set, values
\* unset and the series' labels without __name__ (bodies whose samples all
\* parse).
C11_OneMetricPerSeries ==
    (built # NoResult /\ SuccessOf("vector") /\ ~from_response_raises(api_response)) =>
        /\ built.kind = "return"
        /\ Len(built.value.metrics) = Len(api_response.result)
        /\ \A j \in 1..Len(api_response.result) :
              LET m == built.value.metrics[j]  s == api_response.result[j] IN
              /\ m.value # None
              /\ m.values = NoValues
              /\ m.labels = NamelessLabels(s)

\* C11: a status="success" vector body whose samples all parse gives one
\* Metric for each series that carries a [timestamp, value] sample, in series
\* order, with value the parsed sample, values unset and the series' labels
\* without __name__; a series without a sample gives no Metric.
C11_OneMetricPerSample ==
    (built # NoResult /\ SuccessOf("vector") /\ ~from_response_raises(api_response)) =>
        LET carrying == SelectSeq(api_response.result, HasSample) IN
        /\ built.kind = "return"
        /\ Len(built.value.metrics) = Len(carrying)
        /\ \A j \in 1..Len(carrying) :
              LET m == built.value.metrics[j]  s == carrying[j] IN
              /\ m.value = FloatTable[s.value[2]]
              /\ m.value # None
              /\ m.values = NoValues
              /\ m.labels = NamelessLabels(s)

\* two series with samples, the first with __name__ and another label
C11_Witness ==
    /\ built # NoResult /\ SuccessOf("vector") /\ built.kind = "return"
    /\ Len(api_response.result) = 2
    /\ Len(built.value.metrics) = 2
    /\ built.value.metrics[1].labels # {}
    /\ built.value.metrics[1].labels # api_response.result[1].metric

\* C12: a status="success" matrix body whose samples all parse gives exactly
\* one Metric per series, in series order, with value unset and a values
\* sequence as long as the series' list of timestamped samples and in the
\* same order.
C12_MatrixValues ==
    (built # NoResult /\ SuccessOf("matrix") /\ ~from_response_raises(api_response)) =>
        /\ built.kind = "return"
        /\ Len(built.value.metrics) = Len(api_response.result)
        /\ \A j \in 1..Len(api_response.result) :
              LET m == built.value.metrics[j]
                  samples == SelectSeq(api_response.result[j].values, IsPair) IN
              /\ m.value = None
              /\ m.values.set
              /\ m.labels = NamelessLabels(api_response.result[j])
              /\ Len(m.values.items) = Len(samples)
              /\ \A i \in 1..Len(samples) :
                    /\ m.values.items[i].timestamp = FromTimestamp(samples[i][1])
                    /\ m.values.items[i].value = FloatTable[samples[i][2]]

\* two series, the first with two samples of different value, the second
\* with none
C12_Witness ==
    /\ built # NoResult /\ SuccessOf("matrix") /\ built.kind = "return"
    /\ Len(built.value.metrics) = 2
    /\ Len(built.value.metrics[1].values.items) = 2
    /\ built.value.metrics[1].values.items[1].value
         # built.value.metrics[1].values.items[2].value
    /\ built.value.metrics[2].values = Values(<<>>)

\* C13: a body whose status is not "success", or that has no status, gives a
\* Result with success=false and no metrics, whose error is the body's error
\* member, or the generic message when the body has no such member, and whose
\* data is the body itself.
C13_FailedBody ==
    (built # NoResult /\ api_response.status # "success") =>
        /\ built.kind = "return"
        /\ built.value.success = FALSE
        /\ built.value.metrics = <<>>
        /\ built.value.error =
              IF api_response.error = Absent THEN "Unknown error"
              ELSE IF api_response.error = Null THEN None
              ELSE api_response.error
        /\ built.value.data = api_response

\* a body without status and without error, that lists a series
C13_Witness ==
    /\ built # NoResult /\ built.kind = "return"
    /\ api_response.status = Absent /\ api_response.error = Absent
    /\ Len(api_response.result) > 0
    /\ built.value.status = "unknown"
    /\ built.value.error = "Unknown error"

WellFormed(series) == HasSample(series) /\ CanFloat(series.value[2])
WellFormedPair(entry) == IsPair(entry) /\ CanFloat(entry[2])

\* C14: a sample that does not parse as a number is skipped: from_response,
\* and query() called with the same body, still end with success=true and
\* the Metrics of the well-formed samples.
C14_MalformedSampleSkipped ==
    (built # NoResult /\ (SuccessOf("vector") \/ SuccessOf("matrix"))) =>
        /\ built.kind = "return"
        /\ built.value.success = TRUE
        /\ query("up", Ok(api_response)).kind = "return"
        /\ query("up", Ok(api_response)).value.success = TRUE
        /\ SuccessOf("vector") =>
              Len(built.value.metrics) = Len(SelectSeq(api_response.result, WellFormed))
        /\ SuccessOf("matrix") =>
              \A j \in 1..Len(api_response.result) :
                 Len(built.value.metrics[j].values.items)
                   = Len(SelectSeq(api_response.result[j].values, WellFormedPair))

\* ---------------------------------------------- properties of the models
\* One Query or QueryResult object whose properties are read.  Texts are
\* sequences of characters; the k-th character of a query text depends on k,
\* so that a slice is told apart from any other part of the text.  An
\* Optional[str] is a record: set is FALSE for None.
MaxTextLen == 52
\* the 50 of query[:50] and of len(query) > 50
DisplayLimit == 50

Digits == <<"0", "1", "2", "3", "4", "5", "6", "7", "8", "9">>
Text(n) == [k \in 1..n |-> Digits[(k % 10) + 1]]
Texts == { Text(n) : n \in 0..MaxTextLen }
NoStr == [set |-> FALSE, text |-> <<>>]
Str(text) == [set |-> TRUE, text |-> text]
Names == { NoStr, Str(<<>>), Str(<<"c", "p", "u">>) }
Ellipsis == <<".", ".", ".">>

\* s[:n]
Slice(s, n) == SubSeq(s, 1, IF Len(s) < n THEN Len(s) ELSE n)
\* a or b, for a: Optional[str]
StrOr(a, b) == IF a.set /\ a.text # <<>> THEN a.text ELSE b
Truncated(text) ==
    Slice(text, DisplayLimit) \o (IF Len(text) > DisplayLimit THEN Ellipsis ELSE <<>>)

display_name_untruncated(q) == StrOr(q.name, q.query)
\* Query.display_name
display_name(q) == StrOr(q.name, Truncated(q.query))
\* QueryResult.display_name
QueryResult_display_name(r) == StrOr(r.query_name, Truncated(r.query))

QueryObjects ==
    { [cls |-> "Query", name |-> n, query |-> t, start |-> s, end |-> e] :
        n \in Names, t \in Texts, s \in {None, T0}, e \in {None, T1} }
ResultObjects ==
    { [cls |-> "QueryResult", query_name |-> n, query |-> t] :
        n \in Names, t \in Texts }

InitModels ==
    /\ DispatchIdle /\ BuilderIdle /\ TransportIdle /\ LimiterIdle /\ AuthIdle /\ TaskIdle /\ BatchIdle /\ RetryIdle /\ SessionIdle
    /\ qobj \in QueryObjects \cup ResultObjects
    /\ shown = NoResult

\* the properties of a Query are read
ReadQuery ==
    /\ shown = NoResult
    /\ qobj.cls = "Query"
    /\ shown' = [display_name |-> display_name(qobj),
                 is_range_query |-> is_range_query(qobj),
                 is_instant_query |-> is_instant_query(qobj),
                 query_type |-> query_type(qobj)]
    /\ UNCHANGED <<dispatchVars, sessionVars, retryVars, batchVars, taskVars, authVars, limiterVars, builderVars, transportVars, qobj>>

\* the display name of a QueryResult is read
ReadResult ==
    /\ shown = NoResult
    /\ qobj.cls = "QueryResult"
    /\ shown' = [display_name |-> QueryResult_display_name(qobj)]
    /\ UNCHANGED <<dispatchVars, sessionVars, retryVars, batchVars, taskVars, authVars, limiterVars, builderVars, transportVars, qobj>>

NextModels ==
    \/ ReadQuery
    \/ ReadResult

SpecModels == InitModels /\ [][NextModels]_vars

NameOf(o) == IF o.cls = "Query" THEN o.name ELSE o.query_name
\* the display name built from the query text
FromText(o) ==
    IF Len(o.query) <= 50 THEN o.query
    ELSE [k \in 1..53 |-> IF k <= 50 THEN o.query[k] ELSE "."]

\* C15 as stated, a name being present when it is not None: the display name
\* is the name when one is present, else the query text when it has at most
\* 50 characters, else its first 50 characters followed by "...".
C15_NameWhenPresent ==
    shown # NoResult =>
        shown.display_name =
            IF NameOf(qobj).set THEN NameOf(qobj).text ELSE FromText(qobj)

\* C15: the display name of a Query and of a QueryResult is the name when it
\* is set and not empty; otherwise the query text when it has at most 50
\* characters, else its first 50 characters followed by "...".
C15_DisplayName ==
    shown # NoResult =>
        shown.display_name =
            IF NameOf(qobj).set /\ Len(NameOf(qobj).text) > 0
            THEN NameOf(qobj).text ELSE FromText(qobj)

\* an empty name and a text longer than 50 characters
C15_Witness ==
    /\ shown # NoResult
    /\ NameOf(qobj) = Str(<<>>)
    /\ Len(qobj.query) > 50
    /\ Len(shown.display_name) = 53

\* C16: a Query is a range query iff both start and end are set;
\* is_instant_query is the negation of is_range_query, and query_type is
\* "range" exactly when is_range_query holds, "instant" otherwise.
C16_RangeIffBoth ==
    (shown # NoResult /\ qobj.cls = "Query") =>
        /\ shown.is_range_query <=> (qobj.start # None /\ qobj.end # None)
        /\ shown.is_instant_query <=> ~shown.is_range_query
        /\ shown.query_type = "range" <=> shown.is_range_query
        /\ shown.query_type = "instant" <=> ~shown.is_range_query

\* only start is set
C16_Witness ==
    /\ shown # NoResult /\ qobj.cls = "Query"
    /\ qobj.start # None /\ qobj.end = None
    /\ shown.is_instant_query
    /\ shown.query_type = "instant"

\* ------------------------------------------- BaseAsyncClient._request
\* One call of _request under its tenacity decorator.  Every HTTP attempt is
\* answered with one of the responses below; the rate limiter only delays an
\* attempt and is left out.
MaxRetries == 3

\* Optional[int]
NoInt == [set |-> FALSE, n |-> 0]
SomeInt(n) == [set |-> TRUE, n |-> n]
\* int(str) of a Retry-After header
IntOf(header) == IF header = "5" THEN 5 ELSE 0

\* status 0 stands for a request that got no response (aiohttp.ClientError,
\* timeout); header is the Retry-After header, text the response text
Response(status, header, text) == [status |-> status, header |-> header, text |-> text]
Responses ==
    { Response(200, Absent, "json"), Response(400, Absent, "bad query"),
      Response(401, Absent, "unauthorized"), Response(404, Absent, "not found"),
      Response(429, Absent, "slow down"), Response(429, "5", "slow down"),
      Response(500, Absent, "oops"), Response(0, Absent, "") }

ApiError(type, message, status_code, retry_after) ==
    [type |-> type, message |-> message, status_code |-> status_code,
     retry_after |-> retry_after]
\* tenacity.RetryError: holds the last attempt, has no status_code or retry_after
RetryError(last) == [type |-> "RetryError", last_attempt |-> last]

\* what one attempt ends with: _request_aiohttp with _handle_response
\* (_request_httpx with _handle_httpx_response is the same)
_handle_response(resp) ==
    IF resp.status = 0
    THEN Raise("ClientError", ApiError("ClientError", <<"Cannot connect">>, NoInt, NoInt))
    ELSE IF resp.status = 429
    THEN Raise("RateLimitError",
               ApiError("RateLimitError", <<"Rate limit exceeded">>, SomeInt(429),
                        IF Truthy(resp.header) THEN SomeInt(IntOf(resp.header)) ELSE NoInt))
    ELSE IF resp.status = 401
    THEN Raise("APIError", ApiError("APIError", <<"Authentication failed">>, SomeInt(401), NoInt))
    ELSE IF resp.status >= 400
    THEN Raise("APIError",
               ApiError("APIError", <<"Request failed: ", resp.text>>, SomeInt(resp.status), NoInt))
    ELSE Return(VectorBody)

InitTransport ==
    /\ DispatchIdle /\ BuilderIdle /\ QueryIdle /\ LimiterIdle /\ AuthIdle /\ TaskIdle /\ BatchIdle /\ RetryIdle /\ SessionIdle
    /\ max_retries \in 0..MaxRetries
    /\ tpc = "idle"
    /\ tattempt = 0
    /\ served = <<>>
    /\ delivered = NoResult

\* await client._request(...): tenacity starts the first attempt
Request ==
    /\ tpc = "idle"
    /\ tpc' = "attempting"
    /\ tattempt' = 1
    /\ UNCHANGED <<dispatchVars, sessionVars, retryVars, batchVars, taskVars, authVars, limiterVars, builderVars, queryVars, max_retries, served, delivered>>

\* an attempt gets a response below 400: _request returns its JSON
AttemptReturns ==
    /\ tpc = "attempting"
    /\ \E resp \in Responses :
          /\ _handle_response(resp).kind = "return"
          /\ served' = Append(served, resp)
          /\ delivered' = _handle_response(resp)
    /\ tpc' = "returned"
    /\ UNCHANGED <<dispatchVars, sessionVars, retryVars, batchVars, taskVars, authVars, limiterVars, builderVars, queryVars, max_retries, tattempt>>

\* an attempt raises: tenacity retries any Exception until
\* stop_after_attempt(3), then raises RetryError (reraise is not set)
AttemptRaises ==
    /\ tpc = "attempting"
    /\ \E resp \in Responses :
          /\ _handle_response(resp).kind = "raise"
          /\ served' = Append(served, resp)
          /\ IF tattempt >= StopAfterAttempt
             THEN /\ tpc' = "raised"
                  /\ delivered' = Raise("RetryError", RetryError(_handle_response(resp).text))
             ELSE /\ tpc' = "sleeping"
                  /\ UNCHANGED delivered
    /\ UNCHANGED <<dispatchVars, sessionVars, retryVars, batchVars, taskVars, authVars, limiterVars, builderVars, queryVars, max_retries, tattempt>>

\* wait_exponential(multiplier=1, min=4, max=10) is over: the next attempt
Backoff ==
    /\ tpc = "sleeping"
    /\ tpc' = "attempting"
    /\ tattempt' = tattempt + 1
    /\ UNCHANGED <<dispatchVars, sessionVars, retryVars, batchVars, taskVars, authVars, limiterVars, builderVars, queryVars, max_retries, served, delivered>>

NextTransport ==
    \/ Request
    \/ AttemptReturns
    \/ AttemptRaises
    \/ Backoff

SpecTransport == InitTransport /\ [][NextTransport]_vars

Ended == tpc \in {"returned", "raised"}
LastServed == served[Len(served)]
\* the error the caller of _request catches
Caught == delivered.text

\* C17: the outcome of a call is determined by the status of its last
\* response: 401 gives AuthenticationError; 429 gives RateLimitError with the
\* Retry-After seconds when the header is present; any other status >= 400
\* gives APIError with the status code and the response text; no response
\* gives APIError without status code; a status below 400 returns the body.
C17_ErrorByStatus ==
    Ended =>
        /\ LastServed.status = 0 =>
              /\ delivered.kind = "raise" /\ delivered.type = "APIError"
              /\ Caught.status_code = NoInt
        /\ LastServed.status = 401 =>
              /\ delivered.kind = "raise" /\ delivered.type = "AuthenticationError"
        /\ LastServed.status = 429 =>
              /\ delivered.kind = "raise" /\ delivered.type = "RateLimitError"
              /\ LastServed.header # Absent =>
                    Caught.retry_after = SomeInt(IntOf(LastServed.header))
        /\ (LastServed.status >= 400 /\ LastServed.status \notin {401, 429}) =>
              /\ delivered.kind = "raise" /\ delivered.type = "APIError"
              /\ Caught.status_code = SomeInt(LastServed.status)
              /\ Caught.message = <<"Request failed: ", LastServed.text>>
        /\ (LastServed.status > 0 /\ LastServed.status < 400) =>
              delivered = Return(VectorBody)

\* C18: a call whose attempts were all answered with 429 and that gave up
\* delivers a RateLimitError whose retry_after is the Retry-After value of
\* the last response.
C18_RetryAfterDelivered ==
    (tpc = "raised" /\ \A k \in 1..Len(served) : served[k].status = 429) =>
        /\ delivered.type = "RateLimitError"
        /\ Caught.retry_after =
              IF LastServed.header = Absent THEN NoInt
              ELSE SomeInt(IntOf(LastServed.header))

\* C19: a call makes at most 1 + max_retries HTTP attempts (exactly one when
\* max_retries = 0).
C19_AttemptsBounded == Len(served) <= 1 + max_retries

Transient(resp) == resp.status = 0 \/ resp.status = 429 \/ resp.status >= 500

\* C20: an attempt is followed by another one only when it ended in a
\* transient failure (no response, 429, or a 5xx status).
C20_RetryOnlyTransient ==
    \A k \in 1..(Len(served) - 1) : Transient(served[k])

\* ------------------------------------------------------- rate limiting
\* BaseAsyncClient.throttler: Throttler(rate_limit, period=1) is created once
\* per client when rate_limit is truthy, and _request awaits its acquire()
\* before every HTTP attempt; _request is the function tenacity re-runs, so a
\* retry passes acquire() like a first try.  Time is counted in ticks of a
\* tenth of a second.  The throttler keeps the time of each token; the model
\* keeps the age of each token instead, and stops counting an age at Period,
\* which is all flush() tells apart.  acquire() polls every 0.01 s, ten times
\* per tick, so a token whose age has reached Period ticks is older than the
\* period at the next poll.
MaxRate == 2
MaxAttempts == 10
MaxTime == 45
\* Throttler(period=1): one second in ticks
Period == 10

Older(ages) == [k \in 1..Len(ages) |-> IF ages[k] >= Period THEN ages[k] ELSE ages[k] + 1]
Fresh(age) == age < Period
\* Throttler.flush(): drop the tokens with now - ts > period
flush(logs) == SelectSeq(logs, Fresh)
\* the latest n entries of a sequence
Latest(s, n) == IF Len(s) <= n THEN s ELSE SubSeq(s, Len(s) - n + 1, Len(s))

acquire_admits_over == Len(flush(task_logs)) <= rate_limit
\* Throttler.acquire() leaves its polling loop
acquire_admits == Len(flush(task_logs)) < rate_limit

InitLimiter ==
    /\ DispatchIdle /\ BuilderIdle /\ QueryIdle /\ TransportIdle /\ AuthIdle /\ TaskIdle /\ BatchIdle /\ RetryIdle /\ SessionIdle
    /\ rate_limit \in 0..MaxRate
    /\ now = 0
    /\ task_logs = <<>>
    /\ recent = <<>>
    /\ started = 0

\* one HTTP attempt of some task passes the start of _request:
\*   if self.throttler: await self.throttler.acquire()
HttpAttempt ==
    /\ started < MaxAttempts
    /\ IF rate_limit = 0
       THEN UNCHANGED task_logs
       ELSE /\ acquire_admits
            /\ task_logs' = Append(flush(task_logs), 0)
    /\ recent' = Latest(Append(recent, 0), rate_limit + 1)
    /\ started' = started + 1
    /\ UNCHANGED <<dispatchVars, sessionVars, retryVars, batchVars, taskVars, authVars, builderVars, queryVars, transportVars, rate_limit, now>>

\* a tenth of a second passes; tasks blocked in acquire() poll and sleep
Tick ==
    /\ started > 0
    /\ now < MaxTime
    /\ now' = now + 1
    /\ task_logs' = Older(task_logs)
    /\ recent' = Older(recent)
    /\ UNCHANGED <<dispatchVars, sessionVars, retryVars, batchVars, taskVars, authVars, builderVars, queryVars, transportVars, rate_limit, started>>

NextLimiter ==
    \/ HttpAttempt
    \/ Tick

SpecLimiter == InitLimiter /\ [][NextLimiter]_vars

\* an attempt has just started and rate_limit attempts started before it
WindowFull == Len(recent) = rate_limit + 1 /\ recent[Len(recent)] = 0

\* every attempt took a token of the one limiter, and at most rate_limit
\* attempts start within any second; without a limit an attempt never waits
LimiterHolds ==
    /\ (rate_limit > 0 /\ started > 0) =>
          /\ task_logs # <<>>
          /\ task_logs[Len(task_logs)] = recent[Len(recent)]
    /\ (rate_limit > 0 /\ WindowFull) => recent[1] >= Period
    /\ (rate_limit = 0 /\ started < MaxAttempts) => ENABLED HttpAttempt

\* C21 as stated: the limiter holds, and 10 attempts at 2 per second cannot
\* all have started before about 4.5 seconds have passed.
C21_TenTakeFourAndAHalf ==
    /\ LimiterHolds
    /\ (rate_limit = 2 /\ started >= 10) => 2 * now >= 9 * Period

\* C21: the limiter holds, and when m attempts have started at n per second,
\* at least ceil(m / n) - 1 whole seconds have passed since the first one
\* (4 seconds for 10 attempts at 2 per second).
C21_RateLimited ==
    /\ LimiterHolds
    /\ (rate_limit > 0 /\ started > 0) =>
          now >= ((started - 1) \div rate_limit) * Period

\* ten attempts at 2 per second have started, the last one just now
C21_Witness ==
    /\ rate_limit = 2 /\ started = 10
    /\ WindowFull
    /\ now < MaxTime

\* ---------------------------------------------------------- auth headers
\* _prepare_auth_headers of PrometheusClient and of GrafanaClient, called on a
\* client with the given credentials.  A header dict is a set of <<key,
\* value>> pairs; an f-string is the tuple of its parts.
Secrets(s) == {None, "", s}

\* base64.b64encode(text.encode()).decode()
b64encode(text) == IF text = <<"u", ":", "p">> THEN "dTpw" ELSE "<other>"

Clients ==
    { [cls |-> "PrometheusClient", token |-> t, username |-> u, password |-> p,
       org_id |-> None] :
        t \in Secrets("t"), u \in Secrets("u"), p \in Secrets("p") }
    \cup
    { [cls |-> "GrafanaClient", token |-> t, username |-> u, password |-> p,
       org_id |-> o] :
        t \in Secrets("t"), u \in Secrets("u"), p \in Secrets("p"), o \in {None, "1"} }

authorization_basic_first(c) ==
    IF Truthy(c.username) /\ Truthy(c.password)
    THEN { <<"Authorization", <<"Basic ", b64encode(<<c.username, ":", c.password>>)>> >> }
    ELSE IF Truthy(c.token)
    THEN { <<"Authorization", <<"Bearer ", c.token>> >> }
    ELSE {}
\* the Authorization entry both classes compute (token is api_key in Grafana)
authorization(c) ==
    IF Truthy(c.token)
    THEN { <<"Authorization", <<"Bearer ", c.token>> >> }
    ELSE IF Truthy(c.username) /\ Truthy(c.password)
    THEN { <<"Authorization", <<"Basic ", b64encode(<<c.username, ":", c.password>>)>> >> }
    ELSE {}

_prepare_auth_headers(c) ==
    IF c.cls = "PrometheusClient" THEN authorization(c)
    ELSE authorization(c) \cup
         (IF Truthy(c.org_id) THEN { <<"X-Grafana-Org-Id", c.org_id>> } ELSE {})

InitAuth ==
    /\ DispatchIdle /\ BuilderIdle /\ QueryIdle /\ TransportIdle /\ LimiterIdle /\ TaskIdle /\ BatchIdle /\ RetryIdle /\ SessionIdle
    /\ credentials \in Clients
    /\ auth_headers = NoResult

PrepareAuthHeaders ==
    /\ auth_headers = NoResult
    /\ auth_headers' = Return(_prepare_auth_headers(credentials))
    /\ UNCHANGED <<dispatchVars, sessionVars, retryVars, batchVars, taskVars, builderVars, queryVars, transportVars, limiterVars, credentials>>

NextAuth == PrepareAuthHeaders

SpecAuth == InitAuth /\ [][NextAuth]_vars

AuthorizationOf(h) == { p[2] : p \in { q \in h : q[1] = "Authorization" } }

\* C22 as stated, a credential being present when it is not None: bearer
\* with the token when a token is present; else basic when username and
\* password are both present; else no Authorization header.
C22_PresentCredentials ==
    auth_headers # NoResult =>
        LET auth == AuthorizationOf(auth_headers.value)  c == credentials IN
        IF c.token # None THEN auth = { <<"Bearer ", c.token>> }
        ELSE IF c.username # None /\ c.password # None
        THEN \E v \in auth : auth = {v} /\ v[1] = "Basic "
        ELSE auth = {}

\* C22: bearer with the token when the token is set and not empty, whatever
\* username and password are; else basic with base64(username:password) when
\* both are set and not empty; else no Authorization header.
C22_AuthPrecedence ==
    auth_headers # NoResult =>
        LET auth == AuthorizationOf(auth_headers.value)  c == credentials IN
        IF c.token \notin {None, ""} THEN auth = { <<"Bearer ", c.token>> }
        ELSE IF c.username \notin {None, ""} /\ c.password \notin {None, ""}
        THEN auth = { <<"Basic ", "dTpw">> }
        ELSE auth = {}

\* a token next to a username and a password
C22_Witness ==
    /\ auth_headers # NoResult
    /\ credentials.token = "t" /\ credentials.username = "u" /\ credentials.password = "p"
    /\ <<"Authorization", <<"Bearer ", "t">> >> \in auth_headers.value

\* -------------------------------------------------- one dispatched task
\* execute_single_query for one normalized Query, from the acquired gate on:
\* it hands its request to _request, and ends when _request does.
TaskNames == {None, "", "cpu"}
TaskQueries ==
    { Query(n, "up", None, None, None) : n \in TaskNames } \cup
    { Query(n, "up", T0, None, None) : n \in TaskNames } \cup
    { Query(n, "rate", T0, T1, "1m") : n \in TaskNames }
\* what _request ends with below query / query_range
TaskOutcomes == { Ok(b) : b \in Bodies } \cup { Exc("RetryError"), Exc("CancelledError") }

InitTask ==
    /\ DispatchIdle /\ BuilderIdle /\ QueryIdle /\ TransportIdle /\ LimiterIdle /\ AuthIdle /\ BatchIdle /\ RetryIdle /\ SessionIdle
    /\ task_query \in TaskQueries
    /\ task_query_time \in {None, T0}
    /\ task_outcome \in TaskOutcomes
    /\ sent = NoResult
    /\ task_result = NoResult

\* the task calls query_range or query, which awaits _request
SendRequest ==
    /\ sent = NoResult
    /\ sent' = request_of(task_query, task_query_time)
    /\ UNCHANGED <<dispatchVars, sessionVars, retryVars, batchVars, builderVars, queryVars, transportVars, limiterVars,
                   authVars, task_query, task_query_time, task_outcome, task_result>>

\* _request ends and the task runs to its end
Complete ==
    /\ sent # NoResult /\ task_result = NoResult
    /\ task_result' = execute_single_query(task_query, task_outcome)
    /\ UNCHANGED <<dispatchVars, sessionVars, retryVars, batchVars, builderVars, queryVars, transportVars, limiterVars,
                   authVars, task_query, task_query_time, task_outcome, sent>>

NextTask ==
    \/ SendRequest
    \/ Complete

SpecTask == InitTask /\ [][NextTask]_vars

IsRange(q) == q.start # None /\ q.end # None
Keys(params) == { p[1] : p \in params }

\* C23: the task calls api/v1/query_range with query, start, end and step iff
\* its Query is a range query, and api/v1/query with the query otherwise; the
\* Result it returns is tagged "range" or "instant" accordingly, whether it
\* succeeded or failed; query_time is sent with instant queries only.
C23_EndpointByKind ==
    /\ sent # NoResult =>
          IF IsRange(task_query)
          THEN /\ sent.endpoint = "api/v1/query_range"
               /\ Keys(sent.params) = {"query", "start", "end", "step"}
               /\ <<"query", task_query.query>> \in sent.params
               /\ <<"step", task_query.step>> \in sent.params
          ELSE /\ sent.endpoint = "api/v1/query"
               /\ <<"query", task_query.query>> \in sent.params
               /\ "time" \in Keys(sent.params) <=> task_query_time # None
               /\ Keys(sent.params) \subseteq {"query", "time"}
    /\ (task_result # NoResult /\ task_result.kind = "return") =>
          task_result.value.query_type = IF IsRange(task_query) THEN "range" ELSE "instant"

\* a range query that failed, dispatched in a batch with a query_time
C23_Witness ==
    /\ task_result # NoResult /\ task_result.kind = "return"
    /\ IsRange(task_query) /\ task_query_time # None
    /\ ~task_result.value.success
    /\ task_result.value.query_type = "range"

\* C27 as stated, a name being carried when it is not None: the Result of a
\* Query with a name has that name as query_name, and the Result of a Query
\* without a name has query_name unset.
C27_NameCarried ==
    (task_result # NoResult /\ task_result.kind = "return") =>
        task_result.value.query_name = task_query.name

\* C27: the Result of a Query whose name is set and not empty has that name
\* as query_name, whether the query succeeded or failed; otherwise the
\* Result's query_name is unset.
C27_NamePreserved ==
    (task_result # NoResult /\ task_result.kind = "return") =>
        task_result.value.query_name =
            IF task_query.name \notin {None, ""} THEN task_query.name ELSE None

\* a named query whose transport call failed
C27_Witness ==
    /\ task_result # NoResult /\ task_result.kind = "return"
    /\ task_query.name = "cpu"
    /\ task_outcome = Exc("RetryError")
    /\ ~task_result.value.success
    /\ task_result.value.query_name = "cpu"

\* ------------------------------------------- the gate of query_multiple
\* C24: a task records its start timestamp before it acquires a gate slot,
\* so a task that waits on the gate has recorded it; and every Result that
\* query_multiple returns has execution_time set.
C24_StartBeforeGate ==
    /\ \A i \in Tasks : pc[i] = "waiting" => start_time_recorded(i)
    /\ pcMain = "returned" =>
          \A k \in 1..Len(results) : results[k].execution_time # None

\* the semaphore of the call exists
Dispatched == pcMain \in {"gathering", "returned"} \/ (pcMain = "raised" /\ Len(pc) > 0)

\* C25: the free slots are max_concurrent minus one slot per task that is
\* inside its transport call, so between 0 and max_concurrent; when every
\* task has ended, in whatever way, and when query_multiple has returned, all
\* slots are free.
C25_SlotsReleased ==
    Dispatched =>
        /\ sem_value \in 0..max_concurrent
        /\ sem_value = max_concurrent - Cardinality(Holders)
        /\ AllFinished => sem_value = max_concurrent
        /\ pcMain = "returned" => sem_value = max_concurrent

\* two tasks have ended, one of them by a cancellation inside its transport
\* call that left the task as an exception
C25_Witness ==
    /\ Len(pc) = 2 /\ AllFinished
    /\ \E i \in Tasks : TaskRaised(i) /\ outcome[i].kind = "exc"
    /\ \E i \in Tasks : TaskReturned(i)
    /\ sem_value = max_concurrent

\* ------------------------------------------ termination of query_multiple
\* query_multiple on well-formed inputs, never cancelled.  The event loop
\* runs whatever is ready and every transport attempt and every backoff
\* sleep ends: a step is taken whenever one is possible.
LiveInputs == {StrInput("up"), QueryInput("trend", "rate", T0, T1, "1m")}

InitLive ==
    /\ BuilderIdle /\ QueryIdle /\ TransportIdle /\ LimiterIdle /\ AuthIdle /\ TaskIdle /\ BatchIdle /\ RetryIdle /\ SessionIdle
    /\ queries \in SeqsUpTo(LiveInputs, MaxInputs)
    /\ max_concurrent \in 1..MaxConcurrent
    /\ pcMain = "idle"
    /\ raised = NoResult
    /\ results = <<>>
    /\ query_objects = <<>>
    /\ sem_value = 0
    /\ pc = <<>>
    /\ attempt = <<>>
    /\ must_cancel = <<>>
    /\ outcome = <<>>
    /\ result = <<>>
    /\ finishOrder = <<>>
    /\ httpCalls = 0
    /\ cancelRequested = FALSE

NextLive ==
    \/ Call
    \/ \E i \in Tasks : TaskStart(i)
    \/ \E i \in Tasks : Acquire(i)
    \/ \E i \in Tasks : AttemptOk(i)
    \/ \E i \in Tasks : AttemptFail(i)
    \/ \E i \in Tasks : Retry(i)
    \/ GatherReturn

SpecLive == InitLive /\ [][NextLive]_vars /\ WF_vars(NextLive)

\* C26: for every max_concurrent >= 1 and every number of inputs,
\* query_multiple eventually returns.
C26_EventuallyReturns == <>(pcMain = "returned")

\* query_multiple returned for more inputs than slots
C26_Witness ==
    /\ pcMain = "returned"
    /\ Len(results) > max_concurrent

\* --------------------------------------------------------- batch_execute
\* utils.batch_execute(tasks, batch_size, delay_between_batches).  An
\* awaitable is a coroutine object, which runs only once gather has wrapped
\* it, or a Task that was scheduled before the call; it ends with a value or
\* with an exception.
MaxAwaitables == 3
MaxBatchSize == 2

AwaitableKinds == {"coroutine", "raising coroutine", "task"}
\* what awaitable j ends with
Ending(j) == IF awaitables[j] = "raising coroutine" THEN <<"exception", j>>
             ELSE <<"value", j>>

\* range(0, len(tasks), batch_size) raises ValueError for a step of 0 and is
\* empty for a negative step
RangeIsEmpty == batch_size < 0 \/ Len(awaitables) = 0
\* the positions of tasks[i:i + batch_size]
BatchAt(i) == { j \in 1..Len(awaitables) : j > i /\ j <= i + batch_size }
\* i + batch_size < len(tasks)
more_batches(i) == i + batch_size < Len(awaitables)

\* gather wraps the coroutines of the batch into tasks
Gathered(i) == [j \in 1..Len(awaitables) |->
                  IF j \in BatchAt(i) /\ astate[j] = "new" THEN "running" ELSE astate[j]]

InitBatch ==
    /\ DispatchIdle /\ BuilderIdle /\ QueryIdle /\ TransportIdle /\ LimiterIdle /\ AuthIdle /\ TaskIdle /\ RetryIdle /\ SessionIdle
    /\ awaitables \in SeqsUpTo(AwaitableKinds, MaxAwaitables)
    /\ batch_size \in (-1)..MaxBatchSize
    /\ bpc = "idle"
    /\ offset = 0
    /\ astate = [j \in 1..Len(awaitables) |->
                   IF awaitables[j] = "task" THEN "running" ELSE "new"]
    /\ batch_out = <<>>
    /\ sleeps = 0

\* the call: the for statement evaluates range() and gathers the first batch
CallBatch ==
    /\ bpc = "idle"
    /\ IF batch_size = 0 THEN bpc' = "raised" /\ UNCHANGED astate
       ELSE IF RangeIsEmpty THEN bpc' = "returned" /\ UNCHANGED astate
       ELSE bpc' = "gathering" /\ astate' = Gathered(0)
    /\ UNCHANGED <<dispatchVars, sessionVars, retryVars, builderVars, queryVars, transportVars, limiterVars,
                   authVars, taskVars, awaitables, batch_size, offset, batch_out, sleeps>>

\* a running awaitable ends
AwaitableEnds(j) ==
    /\ astate[j] = "running"
    /\ astate' = [astate EXCEPT ![j] = "done"]
    /\ UNCHANGED <<dispatchVars, sessionVars, retryVars, builderVars, queryVars, transportVars, limiterVars,
                   authVars, taskVars, awaitables, batch_size, bpc, offset, batch_out, sleeps>>

\* gather(*batch, return_exceptions=True) returns: results.extend, then the
\* sleep or the end of the loop
BatchDone ==
    /\ bpc = "gathering"
    /\ \A j \in BatchAt(offset) : astate[j] = "done"
    /\ batch_out' = batch_out \o
          [k \in 1..Cardinality(BatchAt(offset)) |-> Ending(offset + k)]
    /\ IF more_batches(offset)
       THEN bpc' = "sleeping" /\ sleeps' = sleeps + 1
       ELSE bpc' = "returned" /\ UNCHANGED sleeps
    /\ UNCHANGED <<dispatchVars, sessionVars, retryVars, builderVars, queryVars, transportVars, limiterVars,
                   authVars, taskVars, awaitables, batch_size, offset, astate>>

\* asyncio.sleep(delay_between_batches) is over: the next batch is gathered
NextBatch ==
    /\ bpc = "sleeping"
    /\ offset' = offset + batch_size
    /\ IF offset + batch_size < Len(awaitables)
       THEN bpc' = "gathering" /\ astate' = Gathered(offset + batch_size)
       ELSE bpc' = "returned" /\ UNCHANGED astate
    /\ UNCHANGED <<dispatchVars, sessionVars, retryVars, builderVars, queryVars, transportVars, limiterVars,
                   authVars, taskVars, awaitables, batch_size, batch_out, sleeps>>

NextBatches ==
    \/ CallBatch
    \/ \E j \in 1..Len(awaitables) : AwaitableEnds(j)
    \/ BatchDone
    \/ NextBatch

SpecBatch == InitBatch /\ [][NextBatches]_vars

BatchEnded == bpc \in {"returned", "raised"}
\* the number of the batch position j falls into
BatchNo(j) == (j - 1) \div batch_size
NumBatches == (Len(awaitables) + batch_size - 1) \div batch_size
\* one entry per awaitable, in input order: its value, or its exception
OneEntryEach ==
    /\ bpc = "returned"
    /\ Len(batch_out) = Len(awaitables)
    /\ \A j \in 1..Len(awaitables) :
          batch_out[j] = <<IF awaitables[j] = "raising coroutine" THEN "exception"
                           ELSE "value", j>>
\* a sleep is taken after every batch but the last
SleepsBetween ==
    /\ bpc = "sleeping" => offset + batch_size < Len(awaitables)
    /\ bpc = "returned" =>
          sleeps = IF Len(awaitables) = 0 THEN 0 ELSE NumBatches - 1

\* C28 as stated, for every batch_size and every kind of awaitable: one entry
\* per awaitable in input order, an exception being its awaitable's entry; no
\* awaitable of a later batch has started while one of an earlier batch has
\* not finished; one sleep between consecutive batches, none after the last.
C28_AnyBatchSize ==
    /\ BatchEnded => OneEntryEach
    /\ (batch_size >= 1 /\ bpc # "idle") =>
          /\ \A j, k \in 1..Len(awaitables) :
                (BatchNo(j) < BatchNo(k) /\ astate[k] # "new") => astate[j] = "done"
          /\ SleepsBetween

\* The statement for batch_size >= 1: one entry per awaitable in input order, an
\* exception being its awaitable's entry; no coroutine of a later batch has
\* started while an awaitable of an earlier batch has not finished; one
\* sleep between consecutive batches, none after the last.
BatchesRunInTurn ==
    batch_size >= 1 =>
        /\ BatchEnded => OneEntryEach
        /\ \A j, k \in 1..Len(awaitables) :
              (BatchNo(j) < BatchNo(k) /\ awaitables[k] # "task" /\ astate[k] # "new")
                  => astate[j] = "done"
        /\ SleepsBetween

\* three awaitables in batches of two, the second of which raised
BatchesOfTwo ==
    /\ bpc = "returned"
    /\ Len(awaitables) = 3 /\ batch_size = 2
    /\ awaitables[2] = "raising coroutine"
    /\ batch_out[2] = <<"exception", 2>>
    /\ sleeps = 1

(***************************************************************************)
(* retry_on_failure (utils.py): one call of a function wrapped by          *)
(* retry_on_failure(max_attempts, delay, backoff, exceptions).  The async  *)
(* and the sync wrapper are the same loop; they differ in the sleep used.  *)
(***************************************************************************)
MaxAttemptsArg == 3
MaxDelay == 2
MaxBackoff == 3

\* the value returned, or the exception raised, by the k-th call
ValueOf(k) == [kind |-> "value", call |-> k]
ExceptionOf(k, caught) == [kind |-> "exception", call |-> k, caught |-> caught]
\* `raise last_exception` with last_exception = None
RaiseNone == [kind |-> "TypeError"]

\* `if attempt < max_attempts - 1`
attempts_left_inclusive == loop_attempt <= max_attempts - 1
attempts_left == loop_attempt < max_attempts - 1

\* `for attempt in range(max_attempts)` moves on: the next call, or the
\* `raise last_exception` after the loop
LoopContinues(e) ==
    /\ loop_attempt' = loop_attempt + 1
    /\ IF loop_attempt + 1 < max_attempts
         THEN rpc' = "calling" /\ wrapped' = wrapped
         ELSE rpc' = "raised" /\ wrapped' = e

InitRetry ==
    /\ DispatchIdle /\ BuilderIdle /\ QueryIdle /\ TransportIdle /\ LimiterIdle /\ AuthIdle /\ TaskIdle /\ BatchIdle /\ SessionIdle
    /\ max_attempts \in 0..MaxAttemptsArg
    /\ delay \in 1..MaxDelay
    /\ backoff \in 1..MaxBackoff
    /\ current_delay = 0
    /\ last_exception = NoResult
    /\ loop_attempt = 0
    /\ rpc = "idle"
    /\ calls = <<>> /\ slept = <<>> /\ wrapped = NoResult

\* the wrapper is called: range(max_attempts) is empty for max_attempts = 0
CallWrapped ==
    /\ rpc = "idle"
    /\ current_delay' = delay
    /\ IF max_attempts = 0
         THEN rpc' = "raised" /\ wrapped' = RaiseNone
         ELSE rpc' = "calling" /\ wrapped' = wrapped
    /\ UNCHANGED <<dispatchVars, sessionVars, builderVars, queryVars, transportVars, limiterVars,
                   authVars, taskVars, batchVars,
                   max_attempts, delay, backoff, last_exception, loop_attempt, calls, slept>>

\* `return func(*args, **kwargs)`
FuncReturns ==
    /\ rpc = "calling"
    /\ calls' = Append(calls, "value")
    /\ wrapped' = ValueOf(Len(calls) + 1)
    /\ rpc' = "returned"
    /\ UNCHANGED <<dispatchVars, sessionVars, builderVars, queryVars, transportVars, limiterVars,
                   authVars, taskVars, batchVars,
                   max_attempts, delay, backoff, current_delay, last_exception,
                   loop_attempt, slept>>

\* func raises an exception of the configured tuple: `except exceptions as e`
FuncRaisesCaught ==
    /\ rpc = "calling"
    /\ calls' = Append(calls, "caught")
    /\ last_exception' = ExceptionOf(Len(calls) + 1, TRUE)
    /\ IF attempts_left
         THEN /\ slept' = Append(slept, current_delay)
              /\ rpc' = "sleeping"
              /\ UNCHANGED <<loop_attempt, wrapped, current_delay>>
         ELSE /\ LoopContinues(ExceptionOf(Len(calls) + 1, TRUE))
              /\ UNCHANGED <<slept, current_delay>>
    /\ UNCHANGED <<dispatchVars, sessionVars, builderVars, queryVars, transportVars, limiterVars,
                   authVars, taskVars, batchVars, max_attempts, delay, backoff>>

\* func raises an exception outside the configured tuple: no handler applies
FuncRaisesOther ==
    /\ rpc = "calling"
    /\ calls' = Append(calls, "other")
    /\ wrapped' = ExceptionOf(Len(calls) + 1, FALSE)
    /\ rpc' = "raised"
    /\ UNCHANGED <<dispatchVars, sessionVars, builderVars, queryVars, transportVars, limiterVars,
                   authVars, taskVars, batchVars,
                   max_attempts, delay, backoff, current_delay, last_exception,
                   loop_attempt, slept>>

\* the sleep is over: `current_delay *= backoff`, then the loop moves on
SleepOver ==
    /\ rpc = "sleeping"
    /\ current_delay' = current_delay * backoff
    /\ LoopContinues(last_exception)
    /\ UNCHANGED <<dispatchVars, sessionVars, builderVars, queryVars, transportVars, limiterVars,
                   authVars, taskVars, batchVars,
                   max_attempts, delay, backoff, last_exception, calls, slept>>

NextRetry ==
    \/ CallWrapped
    \/ FuncReturns
    \/ FuncRaisesCaught
    \/ FuncRaisesOther
    \/ SleepOver

SpecRetry == InitRetry /\ [][NextRetry]_vars

RECURSIVE Pow(_, _)
Pow(b, k) == IF k = 0 THEN 1 ELSE b * Pow(b, k - 1)

\* every call but the latest failed with an exception of the tuple
OnlyLastMayEnd ==
    \A k \in 1..(Len(calls) - 1) : calls[k] = "caught"
\* the k-th sleep lasts d * b^(k-1)
SleepsGrow ==
    \A k \in 1..Len(slept) : slept[k] = delay * Pow(backoff, k - 1)
\* one sleep after each failed attempt except the last of the n
SleepsBetweenAttempts ==
    Len(slept) = CASE rpc \in {"calling", "sleeping"} -> Len(calls)
                   [] rpc \in {"returned", "raised"} -> Len(calls) - 1
                   [] OTHER -> 0

\* C29: with max_attempts = n >= 1 the function is called at most n times; a
\* call that succeeds is the last one and its value is returned; the wrapper
\* sleeps after each failed attempt but the n-th, the k-th sleep lasting
\* d * b^(k-1); after n failures it raises the exception of the n-th attempt;
\* an exception outside the tuple is raised at once, with no sleep after it.
C29_RetryOnFailure ==
    max_attempts >= 1 =>
        /\ Len(calls) <= max_attempts
        /\ OnlyLastMayEnd
        /\ rpc = "returned" <=> (calls # <<>> /\ calls[Len(calls)] = "value")
        /\ rpc = "returned" => wrapped = ValueOf(Len(calls))
        /\ SleepsGrow
        /\ SleepsBetweenAttempts
        /\ rpc = "raised" =>
              /\ calls # <<>>
              /\ wrapped = ExceptionOf(Len(calls), calls[Len(calls)] = "caught")
              /\ calls[Len(calls)] = "caught" => Len(calls) = max_attempts
        /\ (calls # <<>> /\ calls[Len(calls)] = "other") => rpc = "raised"

\* three attempts failed with sleeps of 2 and 6 between them
C29_Witness ==
    /\ rpc = "raised"
    /\ max_attempts = 3 /\ delay = 2 /\ backoff = 3
    /\ calls = <<"caught", "caught", "caught">>
    /\ slept = <<2, 6>>
    /\ wrapped = ExceptionOf(3, TRUE)

(***************************************************************************)
(* Session management of BaseAsyncClient (base.py): requests on the        *)
(* aiohttp path and on the httpx path, concurrent with each other and      *)
(* with close().  _ensure_session and _ensure_httpx_session contain no     *)
(* await, so each runs in one step with the start of its request.          *)
(***************************************************************************)
MaxRequests == 3
MaxCloses == 2

\* `self._session is None or self._session.closed`
needs_session(current, all) == current = 0 \/ all[current] = "closed"
\* `self._httpx_session is None`
needs_httpx_session(current, all) == current = 0

\* the sessions after _ensure_session / _ensure_httpx_session
Ensured(need, all) == IF need THEN Append(all, "open") ELSE all
Current(need, current, all) == IF need THEN Len(all) + 1 ELSE current

\* a request issued on a closed httpx client raises RuntimeError at once
Issued(lib, current, all) ==
    [lib |-> lib, session |-> current, issued_on |-> all[current],
     state |-> IF all[current] = "open" THEN "in flight" ELSE "error"]

InitSessions ==
    /\ DispatchIdle /\ BuilderIdle /\ QueryIdle /\ TransportIdle /\ LimiterIdle /\ AuthIdle /\ TaskIdle /\ BatchIdle /\ RetryIdle
    /\ SessionIdle

\* _request_aiohttp up to its first await: _ensure_session, then the request
\* is sent on self._session
RequestAiohttp ==
    /\ Len(requests) < MaxRequests
    /\ LET need == needs_session(_session, aiohttp_sessions)
           all == Ensured(need, aiohttp_sessions)
           current == Current(need, _session, aiohttp_sessions)
       IN /\ aiohttp_sessions' = all
          /\ _session' = current
          /\ requests' = Append(requests, Issued("aiohttp", current, all))
    /\ UNCHANGED <<dispatchVars, builderVars, queryVars, transportVars, limiterVars,
                   authVars, taskVars, batchVars, retryVars,
                   _httpx_session, httpx_clients, cpc, closes>>

\* _request_httpx up to its first await: _ensure_httpx_session, then the
\* request is sent on self._httpx_session
RequestHttpx ==
    /\ Len(requests) < MaxRequests
    /\ LET need == needs_httpx_session(_httpx_session, httpx_clients)
           all == Ensured(need, httpx_clients)
           current == Current(need, _httpx_session, httpx_clients)
       IN /\ httpx_clients' = all
          /\ _httpx_session' = current
          /\ requests' = Append(requests, Issued("httpx", current, all))
    /\ UNCHANGED <<dispatchVars, builderVars, queryVars, transportVars, limiterVars,
                   authVars, taskVars, batchVars, retryVars,
                   _session, aiohttp_sessions, cpc, closes>>

\* the response of a request in flight arrives, or its session was closed
\* under it
RequestEnds(i) ==
    /\ requests[i].state = "in flight"
    /\ LET all == IF requests[i].lib = "aiohttp" THEN aiohttp_sessions ELSE httpx_clients
       IN requests' = [requests EXCEPT ![i].state =
                          IF all[requests[i].session] = "open" THEN "ok" ELSE "error"]
    /\ UNCHANGED <<dispatchVars, builderVars, queryVars, transportVars, limiterVars,
                   authVars, taskVars, batchVars, retryVars,
                   _session, _httpx_session, aiohttp_sessions, httpx_clients, cpc, closes>>

\* close(), up to `await self._session.close()`
CloseSession ==
    /\ cpc = "idle"
    /\ closes < MaxCloses
    /\ closes' = closes + 1
    /\ cpc' = "httpx"
    /\ aiohttp_sessions' =
          IF _session # 0 /\ aiohttp_sessions[_session] # "closed"
            THEN [aiohttp_sessions EXCEPT ![_session] = "closed"]
            ELSE aiohttp_sessions
    /\ UNCHANGED <<dispatchVars, builderVars, queryVars, transportVars, limiterVars,
                   authVars, taskVars, batchVars, retryVars,
                   _session, _httpx_session, httpx_clients, requests>>

\* close(), from `if self._httpx_session:` on; aclose() of a closed client
\* does nothing
CloseHttpx ==
    /\ cpc = "httpx"
    /\ cpc' = "idle"
    /\ httpx_clients' =
          IF _httpx_session # 0
            THEN [httpx_clients EXCEPT ![_httpx_session] = "closed"]
            ELSE httpx_clients
    /\ UNCHANGED <<dispatchVars, builderVars, queryVars, transportVars, limiterVars,
                   authVars, taskVars, batchVars, retryVars,
                   _session, _httpx_session, aiohttp_sessions, requests, closes>>

NextSessions ==
    \/ RequestAiohttp
    \/ RequestHttpx
    \/ \E i \in 1..Len(requests) : RequestEnds(i)
    \/ CloseSession
    \/ CloseHttpx

SpecSessions == InitSessions /\ [][NextSessions]_vars

Open(all) == { i \in 1..Len(all) : all[i] = "open" }

\* C30 as stated: at most one open aiohttp session and at most one open httpx
\* session at any time, and every request, also one issued after close(), is
\* issued on an open session of its library.
C30_FreshSessionAfterClose ==
    /\ Cardinality(Open(aiohttp_sessions)) <= 1
    /\ Cardinality(Open(httpx_clients)) <= 1
    /\ \A i \in 1..Len(requests) : requests[i].issued_on = "open"

====
